---- MODULE Spec2Model ----
(***************************************************************************)
(* gopro-puller: the interactive ingestion script src/index.ts.            *)
(*                                                                         *)
(* The script runs four phases one after the other, each a Promise.all     *)
(* over tasks that interleave at their awaits:                             *)
(*   scan       readdir DCIM, readdir each 100* directory, per file:       *)
(*              fs.stat, filename match, camera name lookup or extraction, *)
(*              find-or-create in videosByVolume and push of the path      *)
(*   durations  one ffprobe per chapter, summed into totalDuration         *)
(*   select     the operator picks recordings per volume                   *)
(*   reconcile  per selected recording: stat the destination, then skip,   *)
(*              copy (one chapter) or merge (two or more)                  *)
(* A rejected task rejects its Promise.all, the top-level await throws and *)
(* the process ends: phase "aborted" is terminal.                          *)
(***************************************************************************)
EXTENDS Integers, Sequences, FiniteSets, TLC

\* Bound of the model: how many files the volumes hold in one run.
MaxFiles == 3

(***************************************************************************)
(* Strings the code inspects character by character are sequences of       *)
(* one-character strings.                                                  *)
(***************************************************************************)
Digits == {"0", "1", "2", "3", "4", "5", "6", "7", "8", "9"}

DigitVal(c) ==
  CASE c = "0" -> 0 [] c = "1" -> 1 [] c = "2" -> 2 [] c = "3" -> 3
    [] c = "4" -> 4 [] c = "5" -> 5 [] c = "6" -> 6 [] c = "7" -> 7
    [] c = "8" -> 8 [] c = "9" -> 9

\* String.prototype.startsWith
StartsWith(s, p) ==
  /\ Len(s) >= Len(p)
  /\ SubSeq(s, 1, Len(p)) = p

\* String.prototype.endsWith
EndsWith(s, p) ==
  /\ Len(s) >= Len(p)
  /\ SubSeq(s, Len(s) - Len(p) + 1, Len(s)) = p

\* String.prototype.includes
Includes(s, p) ==
  \E i \in 1..(Len(s) + 1) :
    /\ i + Len(p) - 1 <= Len(s)
    /\ SubSeq(s, i, i + Len(p) - 1) = p

Ext == <<".", "M", "P", "4">>
Prefix100 == <<"1", "0", "0">>
GOPRO == <<"G", "O", "P", "R", "O">>

Dir100GOPRO == <<"1", "0", "0", "G", "O", "P", "R", "O">>
Dir100NIKON == <<"1", "0", "0", "N", "I", "K", "O", "N">>
Dir101GOPRO == <<"1", "0", "1", "G", "O", "P", "R", "O">>

\* Where the regular expression \d{2}(\d{4}) matches in s: the leftmost index
\* at which six digits follow one another, 0 when there is none.
MatchAt(s) ==
  LET hits == {i \in 1..Len(s) :
                 /\ i + 5 <= Len(s)
                 /\ \A k \in 0..5 : s[i + k] \in Digits}
  IN IF hits = {} THEN 0
     ELSE CHOOSE i \in hits : \A j \in hits : i <= j

\* fileName.match(/\d{2}(\d{4})/) is null
NoMatch(s) == MatchAt(s) = 0

\* Number of the captured four digits: the recording's sequence number.
VidNumberOf(s) ==
  LET i == MatchAt(s)
  IN DigitVal(s[i + 2]) * 1000 + DigitVal(s[i + 3]) * 100
       + DigitVal(s[i + 4]) * 10 + DigitVal(s[i + 5])

\* Number of the two digits before them: the chapter index within the recording.
ChapterIndexOf(s) ==
  LET i == MatchAt(s)
  IN DigitVal(s[i]) * 10 + DigitVal(s[i + 1])

(***************************************************************************)
(* The files the volumes may hold. A file id stands for the path           *)
(* /Volumes/<volume>/DCIM/<dir>/<fileName>; size in bytes, dur in tenths   *)
(* of a second (what ffprobe reports), mtime as fs.stat reports it, device *)
(* the name the GPMF stream carries (normalised).                          *)
(***************************************************************************)
Volumes == <<"V1", "V2">>
VolumeSet == {Volumes[i] : i \in 1..Len(Volumes)}

Catalogue ==
  << [volume |-> "V1", dir |-> Dir100GOPRO,
      fileName |-> <<"G", "H", "0", "1", "0", "0", "4", "2">> \o Ext,
      size |-> 2, dur |-> 17, mtime |-> 1, device |-> "HERO8Black"],
     [volume |-> "V1", dir |-> Dir100GOPRO,
      fileName |-> <<"G", "H", "0", "2", "0", "0", "4", "2">> \o Ext,
      size |-> 1, dur |-> 9, mtime |-> 2, device |-> "HERO8Black"],
     [volume |-> "V1", dir |-> Dir100GOPRO,
      fileName |-> <<"G", "H", "0", "1", "0", "0", "4", "3">> \o Ext,
      size |-> 1, dur |-> 12, mtime |-> 3, device |-> "HERO8Black"],
     [volume |-> "V1", dir |-> Dir100NIKON,
      fileName |-> <<"N", "K", "0", "1", "0", "0", "4", "2">> \o Ext,
      size |-> 1, dur |-> 10, mtime |-> 2, device |-> ""],
     [volume |-> "V2", dir |-> Dir100GOPRO,
      fileName |-> <<"G", "H", "0", "1", "0", "0", "4", "2">> \o Ext,
      size |-> 1, dur |-> 21, mtime |-> 1, device |-> "HERO8Black"],
     [volume |-> "V2", dir |-> Dir100GOPRO,
      fileName |-> <<"G", "X", "0", "1", "0", "0", "4", "4">> \o Ext,
      size |-> 1, dur |-> 10, mtime |-> 2, device |-> "HERO9Black"],
     [volume |-> "V2", dir |-> Dir100NIKON,
      fileName |-> <<"D", "S", "C", "_", "0", "0", "4", "2">> \o Ext,
      size |-> 1, dur |-> 10, mtime |-> 1, device |-> ""],
     [volume |-> "V1", dir |-> Dir100GOPRO,
      fileName |-> <<"G", "L", "0", "1", "0", "0", "4", "2", ".", "L", "R", "V">>,
      size |-> 1, dur |-> 17, mtime |-> 1, device |-> "HERO8Black"],
     [volume |-> "V2", dir |-> Dir101GOPRO,
      fileName |-> <<"G", "H", "0", "1", "0", "0", "4", "4">> \o Ext,
      size |-> 1, dur |-> 10, mtime |-> 3, device |-> "HERO9Black"] >>

FileIds == 1..Len(Catalogue)
DirSet == {Catalogue[f].dir : f \in FileIds}

NikonZ30 == "NikonZ30"
CameraNames == {Catalogue[f].device : f \in FileIds} \cup {NikonZ30}


NoSeq == 0 - 1
VidNumbers == {VidNumberOf(Catalogue[f].fileName) :
                 f \in {g \in FileIds : ~NoMatch(Catalogue[g].fileName)}}
\* Destination paths, <destinationFolder>/<sessionName>-<camera>[-<vidNumber>].MP4,
\* as the pair of the two parts that vary; NoSeq when the number is left out.
DestPaths == CameraNames \X (VidNumbers \cup {NoSeq})

NoFile == [exists |-> FALSE, size |-> 0, dur |-> 0]

\* What an earlier run of the script may have left in the destination folder: at
\* most one file, under the name of a lone HERO8Black recording.
PriorPath == <<"HERO8Black", NoSeq>>
PriorFiles == {[exists |-> TRUE, size |-> 1, dur |-> 19],
               [exists |-> TRUE, size |-> 3, dur |-> 29]}
NoAbort == [kind |-> "", volume |-> "", file |-> 0, job |-> 0]

\* No operation hangs.
NoHang == [probes |-> {}, jobs |-> {}]

\* No value was passed to bar.update yet.
NoValue == [num |-> 0, den |-> 0]

\* No copy or merge is followed.
NoTransfer ==
  [variant |-> "", kind |-> "", total |-> 0, pc |-> "", started |-> FALSE,
   bars |-> 0, curr |-> 0, complete |-> FALSE, at |-> 0, passed |-> NoValue]

\* No call of getDeviceNameFromFile is followed.
NoCommand ==
  [stream |-> 0, pos |-> 0, kills |-> 0, ended |-> FALSE, errored |-> FALSE,
   promise |-> "pending", value |-> <<>>]

VARIABLES
  files,            \* the file ids present on the volumes in this run
  phase,            \* scan | durations | select | reconcile | finished | aborted
  volTask,          \* per volume: readdir of DCIM in flight, or done
  dirTask,          \* per (volume, dir): idle | readdir | done
  fileTask,         \* per file: idle | stat | extract | done
  videosByVolume,   \* src/index.ts:112, per volume the list of recordings
  extractions,      \* the files getDeviceNameFromFile was started on
  probesLeft,       \* the ffprobe calls of the duration pass still in flight
  selectedVideos,   \* src/index.ts:218
  jobs,             \* per selected recording, the state of its reconcile task
  destFS,           \* the destination folder: per path the file it holds
  rerun,            \* TRUE once a reconciliation completed and was run again
  abort,            \* the rejection that ended the process, if any
  hung,             \* the operations in flight that will never return
  ffmpegCommand,    \* one call of getDeviceNameFromFile, followed event by event
  transfer          \* one copy or merge with its progress bar, followed event by event

vars == <<files, phase, volTask, dirTask, fileTask, videosByVolume, extractions,
          probesLeft, selectedVideos, jobs, destFS, rerun, abort, hung,
          ffmpegCommand, transfer>>

scanVars == <<volTask, dirTask, fileTask, videosByVolume, extractions>>

DirsOf(v) == {Catalogue[f].dir : f \in {g \in files : Catalogue[g].volume = v}}
FilesIn(v, d) == {f \in files : Catalogue[f].volume = v /\ Catalogue[f].dir = d}

Init ==
  /\ files \in {S \in SUBSET FileIds : Cardinality(S) >= 1 /\ Cardinality(S) <= MaxFiles}
  /\ phase = "scan"
  /\ volTask = [v \in VolumeSet |-> "readdir"]
  /\ dirTask = [vd \in VolumeSet \X DirSet |-> "idle"]
  /\ fileTask = [f \in FileIds |-> "idle"]
  /\ videosByVolume = [v \in VolumeSet |-> <<>>]
  /\ extractions = {}
  /\ probesLeft = {}
  /\ selectedVideos = <<>>
  /\ jobs = <<>>
  /\ destFS \in {[p \in DestPaths |-> IF p = PriorPath THEN file ELSE NoFile] :
                   file \in PriorFiles \cup {NoFile}}
  /\ rerun = FALSE
  /\ abort = NoAbort
  /\ hung = NoHang
  /\ ffmpegCommand = NoCommand
  /\ transfer = NoTransfer

\* A task rejected: Promise.all rejects, the top-level await throws, the process ends.
Reject(kind, volume, file, job) ==
  /\ phase' = "aborted"
  /\ abort' = [kind |-> kind, volume |-> volume, file |-> file, job |-> job]

(***************************************************************************)
(* Scan                                                                    *)
(***************************************************************************)

\* fs.readdir(`/Volumes/${volume}/DCIM`) returned: the 100* directories are read.
VolumeReaddirDone(v) ==
  /\ phase = "scan"
  /\ volTask[v] = "readdir"
  /\ volTask' = [volTask EXCEPT ![v] = "done"]
  /\ dirTask' = [vd \in VolumeSet \X DirSet |->
                   IF vd[1] = v /\ vd[2] \in DirsOf(v) /\ StartsWith(vd[2], Prefix100)
                   THEN "readdir" ELSE dirTask[vd]]
  /\ UNCHANGED <<files, phase, fileTask, videosByVolume, extractions, probesLeft,
                 selectedVideos, jobs, destFS, rerun, abort,
                 hung, ffmpegCommand, transfer>>

\* fs.readdir of DCIM or of a camera-card directory threw.
VolumeReaddirFail(v) ==
  /\ phase = "scan"
  /\ \/ volTask[v] = "readdir"
     \/ \E d \in DirSet : dirTask[<<v, d>>] = "readdir"
  /\ Reject("ScanFailure", v, 0, 0)
  /\ UNCHANGED <<files, scanVars, probesLeft, selectedVideos, jobs, destFS, rerun,
                 hung, ffmpegCommand, transfer>>

\* fs.readdir(`/Volumes/${volume}/DCIM/${dir}`) returned: every .MP4 file gets a task,
\* which starts with fs.stat.
DirReaddirDone(v, d) ==
  /\ phase = "scan"
  /\ dirTask[<<v, d>>] = "readdir"
  /\ dirTask' = [dirTask EXCEPT ![<<v, d>>] = "done"]
  /\ fileTask' = [f \in FileIds |->
                    IF f \in FilesIn(v, d) /\ EndsWith(Catalogue[f].fileName, Ext)
                    THEN "stat" ELSE fileTask[f]]
  /\ UNCHANGED <<files, phase, volTask, videosByVolume, extractions, probesLeft,
                 selectedVideos, jobs, destFS, rerun, abort,
                 hung, ffmpegCommand, transfer>>

\* videosByVolume[volume].find((v) => v.vidNumber === vidNumber): its index, 0 if none.
FindVideo(videos, vidNumber) ==
  LET hits == {i \in 1..Len(videos) : videos[i].vidNumber = vidNumber}
  IN IF hits = {} THEN 0
     ELSE CHOOSE i \in hits : \A j \in hits : i <= j

\* Lines 153-168: push a new recording unless some entry has the number, then push
\* the path onto the first entry that has it.
InsertChapter(videos, f, cameraName) ==
  LET n == VidNumberOf(Catalogue[f].fileName)
      withEntry ==
        IF FindVideo(videos, n) = 0
        THEN Append(videos, [volume |-> Catalogue[f].volume,
                             chapterFilePaths |-> <<>>,
                             cameraName |-> cameraName,
                             date |-> Catalogue[f].mtime,
                             vidNumber |-> n,
                             totalDuration |-> 0])
        ELSE videos
      i == FindVideo(withEntry, n)
  IN [withEntry EXCEPT ![i].chapterFilePaths = Append(@, f)]

\* fs.stat returned for a file whose name matches. The camera name is that of the
\* volume's entry with the same number if there is one, the constant for a directory
\* without GOPRO; in both cases the task runs on to the insert without an await.
\* Otherwise getDeviceNameFromFile is started and awaited.
StatDone(f) ==
  LET v == Catalogue[f].volume
      name == Catalogue[f].fileName
      found == FindVideo(videosByVolume[v], VidNumberOf(name))
  IN /\ phase = "scan"
     /\ fileTask[f] = "stat"
     /\ ~NoMatch(name)
     /\ IF found # 0
        THEN /\ videosByVolume' = [videosByVolume EXCEPT ![v] =
                  InsertChapter(@, f, videosByVolume[v][found].cameraName)]
             /\ fileTask' = [fileTask EXCEPT ![f] = "done"]
             /\ UNCHANGED extractions
        ELSE IF Includes(Catalogue[f].dir, GOPRO)
        THEN /\ fileTask' = [fileTask EXCEPT ![f] = "extract"]
             /\ extractions' = extractions \cup {f}
             /\ UNCHANGED videosByVolume
        ELSE /\ videosByVolume' = [videosByVolume EXCEPT ![v] =
                  InsertChapter(@, f, NikonZ30)]
             /\ fileTask' = [fileTask EXCEPT ![f] = "done"]
             /\ UNCHANGED extractions
     /\ UNCHANGED <<files, phase, volTask, dirTask, probesLeft, selectedVideos,
                    jobs, destFS, rerun, abort,
                    hung, ffmpegCommand, transfer>>

\* fs.stat returned for a file whose name does not match: match() is null and
\* null.map throws a TypeError, which rejects the task.
StatDoneNoMatch(f) ==
  /\ phase = "scan"
  /\ fileTask[f] = "stat"
  /\ NoMatch(Catalogue[f].fileName)
  /\ Reject("ParseFailure", Catalogue[f].volume, f, 0)
  /\ UNCHANGED <<files, scanVars, probesLeft, selectedVideos, jobs, destFS, rerun,
                 hung, ffmpegCommand, transfer>>

\* fs.stat of a chapter file threw.
StatFail(f) ==
  /\ phase = "scan"
  /\ fileTask[f] = "stat"
  /\ Reject("StatFailure", Catalogue[f].volume, f, 0)
  /\ UNCHANGED <<files, scanVars, probesLeft, selectedVideos, jobs, destFS, rerun,
                 hung, ffmpegCommand, transfer>>

\* ExtractDone with the check of line 154 made before the await instead of after
\* it: the task pushes the recording it found missing when it started extracting.
ExtractDoneStale(f) ==
  LET v == Catalogue[f].volume
  IN /\ phase = "scan"
     /\ fileTask[f] = "extract"
     /\ videosByVolume' = [videosByVolume EXCEPT ![v] =
          Append(@, [volume |-> v,
                     chapterFilePaths |-> <<f>>,
                     cameraName |-> Catalogue[f].device,
                     date |-> Catalogue[f].mtime,
                     vidNumber |-> VidNumberOf(Catalogue[f].fileName),
                     totalDuration |-> 0])]
     /\ fileTask' = [fileTask EXCEPT ![f] = "done"]
     /\ UNCHANGED <<files, phase, volTask, dirTask, extractions, probesLeft,
                    selectedVideos, jobs, destFS, rerun, abort,
                    hung, ffmpegCommand, transfer>>

\* getDeviceNameFromFile resolved: the task resumes at line 153.
ExtractDone(f) ==
  LET v == Catalogue[f].volume
  IN /\ phase = "scan"
     /\ fileTask[f] = "extract"
     /\ videosByVolume' = [videosByVolume EXCEPT ![v] =
          InsertChapter(@, f, Catalogue[f].device)]
     /\ fileTask' = [fileTask EXCEPT ![f] = "done"]
     /\ UNCHANGED <<files, phase, volTask, dirTask, extractions, probesLeft,
                    selectedVideos, jobs, destFS, rerun, abort,
                    hung, ffmpegCommand, transfer>>

\* getDeviceNameFromFile rejected: ffmpeg failed, or the stream ended with no marker.
ExtractFail(f) ==
  /\ phase = "scan"
  /\ fileTask[f] = "extract"
  /\ Reject("ExtractionFailure", Catalogue[f].volume, f, 0)
  /\ UNCHANGED <<files, scanVars, probesLeft, selectedVideos, jobs, destFS, rerun,
                 hung, ffmpegCommand, transfer>>

ScanSettled ==
  /\ \A v \in VolumeSet : volTask[v] = "done"
  /\ \A vd \in VolumeSet \X DirSet : dirTask[vd] # "readdir"
  /\ \A f \in FileIds : fileTask[f] \notin {"stat", "extract"}

\* Every path of every recording, as (volume, index of the recording, position).
AllChapters ==
  {<<v, i, k>> \in VolumeSet \X (1..MaxFiles + 1) \X (1..MaxFiles + 1) :
     /\ i <= Len(videosByVolume[v])
     /\ k <= Len(videosByVolume[v][i].chapterFilePaths)}

\* The scan's Promise.all resolved; the duration pass starts one getDuration per path.
ScanEnd ==
  /\ phase = "scan"
  /\ ScanSettled
  /\ phase' = "durations"
  /\ probesLeft' = AllChapters
  /\ UNCHANGED <<files, scanVars, selectedVideos, jobs, destFS, rerun, abort,
                 hung, ffmpegCommand, transfer>>

(***************************************************************************)
(* Duration pass                                                           *)
(***************************************************************************)

\* ProbeDone with = for +=
ProbeDoneOverwrite(v, i, k) ==
  /\ phase = "durations"
  /\ <<v, i, k>> \in probesLeft
  /\ <<v, i, k>> \notin hung.probes
  /\ probesLeft' = probesLeft \ {<<v, i, k>>}
  /\ videosByVolume' = [videosByVolume EXCEPT ![v][i].totalDuration =
       Catalogue[videosByVolume[v][i].chapterFilePaths[k]].dur]
  /\ UNCHANGED <<files, phase, volTask, dirTask, fileTask, extractions,
                 selectedVideos, jobs, destFS, rerun, abort,
                 hung, ffmpegCommand, transfer>>

\* getDuration(path) resolved: video.totalDuration += dur
ProbeDone(v, i, k) ==
  /\ phase = "durations"
  /\ <<v, i, k>> \in probesLeft
  /\ <<v, i, k>> \notin hung.probes
  /\ probesLeft' = probesLeft \ {<<v, i, k>>}
  /\ videosByVolume' = [videosByVolume EXCEPT ![v][i].totalDuration =
       @ + Catalogue[videosByVolume[v][i].chapterFilePaths[k]].dur]
  /\ UNCHANGED <<files, phase, volTask, dirTask, fileTask, extractions,
                 selectedVideos, jobs, destFS, rerun, abort,
                 hung, ffmpegCommand, transfer>>

\* getDuration(path) rejected: ffprobe failed.
ProbeFail(v, i, k) ==
  /\ phase = "durations"
  /\ <<v, i, k>> \in probesLeft
  /\ <<v, i, k>> \notin hung.probes
  /\ Reject("ProbeFailure", v, videosByVolume[v][i].chapterFilePaths[k], 0)
  /\ UNCHANGED <<files, scanVars, probesLeft, selectedVideos, jobs, destFS, rerun,
                 hung, ffmpegCommand, transfer>>

\* getDuration(path) of a chapter will never settle (ffprobe neither answers nor
\* exits). At most one operation of a run hangs.
ProbeHang(v, i, k) ==
  /\ phase = "durations"
  /\ <<v, i, k>> \in probesLeft
  /\ hung = NoHang
  /\ hung' = [hung EXCEPT !.probes = {<<v, i, k>>}]
  /\ UNCHANGED <<files, phase, scanVars, probesLeft, selectedVideos, jobs, destFS,
                 rerun, abort, ffmpegCommand, transfer>>

\* The duration pass's Promise.all resolved; the prompt is shown.
DurationsEnd ==
  /\ phase = "durations"
  /\ probesLeft = {}
  /\ phase' = "select"
  /\ UNCHANGED <<files, scanVars, probesLeft, selectedVideos, jobs, destFS, rerun, abort,
                 hung, ffmpegCommand, transfer>>

(***************************************************************************)
(* Selection                                                               *)
(***************************************************************************)

\* videos.sort((a, b) => b.date.valueOf() - a.date.valueOf()): newest first, stable.
InsertByDate(sorted, x) ==
  LET k == Cardinality({i \in 1..Len(sorted) : sorted[i].date >= x.date})
  IN SubSeq(sorted, 1, k) \o <<x>> \o SubSeq(sorted, k + 1, Len(sorted))

RECURSIVE SortByDate(_)
SortByDate(s) ==
  IF Len(s) <= 1 THEN s
  ELSE InsertByDate(SortByDate(SubSeq(s, 1, Len(s) - 1)), s[Len(s)])

\* The entries of s at the indices in S, in the order of s.
RECURSIVE Chosen(_, _)
Chosen(s, S) ==
  IF Len(s) = 0 THEN <<>>
  ELSE Chosen(SubSeq(s, 1, Len(s) - 1), S)
         \o (IF Len(s) \in S THEN <<s[Len(s)]>> ELSE <<>>)

\* Object.values(selections).flat(): the volumes' choices one after the other.
RECURSIVE Flat(_, _, _)
Flat(videos, pick, n) ==
  IF n = 0 THEN <<>>
  ELSE Flat(videos, pick, n - 1) \o Chosen(videos[Volumes[n]], pick[Volumes[n]])

\* A reconcile task at its first await, fs.stat(destinationFile).
NewJob ==
  [pc |-> "statDest", destinationStat |-> NoFile, sourceSize |-> 0,
   destinationDuration |-> 0, inputs |-> <<>>, copies |-> 0, merges |-> 0,
   started |-> FALSE, bars |-> 0]

\* The operator answered the prompt: the lists are sorted, the chosen recordings
\* are flattened into selectedVideos and one reconcile task per recording starts.
Select ==
  /\ phase = "select"
  /\ \E pick \in [VolumeSet -> SUBSET (1..MaxFiles)] :
       LET sorted == [v \in VolumeSet |-> SortByDate(videosByVolume[v])]
           chosen == Flat(sorted, pick, Len(Volumes))
       IN /\ \A v \in VolumeSet : pick[v] \subseteq 1..Len(videosByVolume[v])
          /\ videosByVolume' = sorted
          /\ selectedVideos' = chosen
          /\ jobs' = [j \in 1..Len(chosen) |-> NewJob]
  /\ phase' = "reconcile"
  /\ UNCHANGED <<files, volTask, dirTask, fileTask, extractions, probesLeft,
                 destFS, rerun, abort,
                 hung, ffmpegCommand, transfer>>

(***************************************************************************)
(* Reconciliation                                                          *)
(***************************************************************************)

\* The flag with length > 0 for length > 1
AreThereAnyVideosFromTheSameCamera(videos) ==
  \E i \in 1..Len(videos) :
    Cardinality({j \in 1..Len(videos) :
                   videos[j].cameraName = videos[i].cameraName}) > 0

\* Line 227: some camera name belongs to more than one selected recording.
AreThereMultipleVideosFromTheSameCamera(videos) ==
  \E i \in 1..Len(videos) :
    Cardinality({j \in 1..Len(videos) :
                   videos[j].cameraName = videos[i].cameraName}) > 1

\* Lines 235-237
DestinationFile(video, videos) ==
  IF AreThereMultipleVideosFromTheSameCamera(videos)
  THEN <<video.cameraName, video.vidNumber>>
  ELSE <<video.cameraName, NoSeq>>

DestOf(j) == DestinationFile(selectedVideos[j], selectedVideos)

\* ~~x of a duration in tenths of a second: the whole seconds.
Trunc(d) == d \div 10

\* AlreadyCopied with < for <=
AlreadyCopiedStrict(destinationStat, sourceSize) ==
  destinationStat.exists /\ sourceSize < destinationStat.size

\* Line 247
AlreadyCopied(destinationStat, sourceSize) ==
  destinationStat.exists /\ sourceSize <= destinationStat.size

\* AlreadyConcatenated without the two ~~
AlreadyConcatenatedExact(destinationDuration, totalDuration) ==
  destinationDuration = totalDuration

\* Line 278
AlreadyConcatenated(destinationDuration, totalDuration) ==
  Trunc(destinationDuration) = Trunc(totalDuration)

RECURSIVE SumSize(_)
SumSize(paths) ==
  IF Len(paths) = 0 THEN 0
  ELSE Catalogue[Head(paths)].size + SumSize(Tail(paths))

RECURSIVE SumDur(_)
SumDur(paths) ==
  IF Len(paths) = 0 THEN 0
  ELSE Catalogue[Head(paths)].dur + SumDur(Tail(paths))

\* The order in which ffmpegCommand.input is called, lines 272-273.
MergeInputs(video) == video.chapterFilePaths

\* fs.stat(destinationFile).catch(() => null) returned. One chapter: fs.stat of the
\* source is awaited. Otherwise the inputs are added; with a destination its duration
\* is probed, without one the merge starts.
DestStatDone(j) ==
  LET video == selectedVideos[j]
      stat == destFS[DestOf(j)]
  IN /\ phase = "reconcile"
     /\ jobs[j].pc = "statDest"
     /\ jobs' = [jobs EXCEPT ![j] =
          IF Len(video.chapterFilePaths) = 1
          THEN [@ EXCEPT !.pc = "statSrc", !.destinationStat = stat]
          ELSE IF stat.exists
          THEN [@ EXCEPT !.pc = "probeDest", !.destinationStat = stat,
                         !.inputs = MergeInputs(video)]
          ELSE [@ EXCEPT !.pc = "merging", !.destinationStat = stat,
                         !.inputs = MergeInputs(video), !.merges = @ + 1]]
     /\ UNCHANGED <<files, phase, scanVars, probesLeft, selectedVideos, destFS,
                    rerun, abort,
                    hung, ffmpegCommand, transfer>>

\* SourceStatDone with multi.newBar moved above the size comparison
SourceStatDoneBarFirst(j) ==
  LET size == Catalogue[selectedVideos[j].chapterFilePaths[1]].size
  IN /\ phase = "reconcile"
     /\ jobs[j].pc = "statSrc"
     /\ jobs' = [jobs EXCEPT ![j] =
          IF AlreadyCopied(jobs[j].destinationStat, size)
          THEN [@ EXCEPT !.pc = "skipped", !.sourceSize = size, !.bars = @ + 1]
          ELSE [@ EXCEPT !.pc = "copying", !.sourceSize = size, !.copies = @ + 1,
                         !.bars = @ + 1]]
     /\ UNCHANGED <<files, phase, scanVars, probesLeft, selectedVideos, destFS,
                    rerun, abort, hung, ffmpegCommand, transfer>>

\* fs.stat(onlyVideo) returned: skip, or allocate the bar and start copyFile.
SourceStatDone(j) ==
  LET size == Catalogue[selectedVideos[j].chapterFilePaths[1]].size
  IN /\ phase = "reconcile"
     /\ jobs[j].pc = "statSrc"
     /\ jobs' = [jobs EXCEPT ![j] =
          IF AlreadyCopied(jobs[j].destinationStat, size)
          THEN [@ EXCEPT !.pc = "skipped", !.sourceSize = size]
          ELSE [@ EXCEPT !.pc = "copying", !.sourceSize = size, !.copies = @ + 1,
                         !.bars = @ + 1]]
     /\ UNCHANGED <<files, phase, scanVars, probesLeft, selectedVideos, destFS,
                    rerun, abort,
                    hung, ffmpegCommand, transfer>>

\* getDuration(destinationFile) resolved: skip, or start the merge.
DestProbeDone(j) ==
  LET dur == destFS[DestOf(j)].dur
  IN /\ phase = "reconcile"
     /\ jobs[j].pc = "probeDest"
     /\ j \notin hung.jobs
     /\ destFS[DestOf(j)].exists
     /\ jobs' = [jobs EXCEPT ![j] =
          IF AlreadyConcatenated(dur, selectedVideos[j].totalDuration)
          THEN [@ EXCEPT !.pc = "skipped", !.destinationDuration = dur]
          ELSE [@ EXCEPT !.pc = "merging", !.destinationDuration = dur,
                         !.merges = @ + 1]]
     /\ UNCHANGED <<files, phase, scanVars, probesLeft, selectedVideos, destFS,
                    rerun, abort,
                    hung, ffmpegCommand, transfer>>

\* fs.stat of the source or getDuration of the destination rejected.
CheckFail(j) ==
  /\ phase = "reconcile"
  /\ jobs[j].pc \in {"statSrc", "probeDest"}
  /\ j \notin hung.jobs
  /\ Reject(IF jobs[j].pc = "statSrc" THEN "StatFailure" ELSE "ProbeFailure",
            selectedVideos[j].volume, 0, j)
  /\ UNCHANGED <<files, scanVars, probesLeft, selectedVideos, jobs, destFS, rerun,
                 hung, ffmpegCommand, transfer>>

\* What job j's copy or merge writes: the chapter, or the inputs one after the other.
Written(j) ==
  IF jobs[j].pc = "copying"
  THEN LET src == Catalogue[selectedVideos[j].chapterFilePaths[1]]
       IN [exists |-> TRUE, size |-> src.size, dur |-> src.dur]
  ELSE [exists |-> TRUE, size |-> SumSize(jobs[j].inputs),
        dur |-> SumDur(jobs[j].inputs)]

\* The jobs writing to path p at this moment.
Writers(p) ==
  {k \in 1..Len(jobs) : jobs[k].pc \in {"copying", "merging"} /\ DestOf(k) = p}

\* What path p holds when job j's write ends: what j wrote, unless another job is
\* writing the same path at the same time, when it may hold that job's bytes.
Outcome(j) == {Written(k) : k \in Writers(DestOf(j))}

\* copyFile resolved.
CopyDone(j) ==
  /\ phase = "reconcile"
  /\ jobs[j].pc = "copying"
  /\ j \notin hung.jobs
  /\ \E file \in Outcome(j) : destFS' = [destFS EXCEPT ![DestOf(j)] = file]
  /\ jobs' = [jobs EXCEPT ![j].pc = "done"]
  /\ UNCHANGED <<files, phase, scanVars, probesLeft, selectedVideos, rerun, abort,
                 hung, ffmpegCommand, transfer>>

\* mergeToFile emitted "start" (ffmpeg was spawned): the bar is allocated.
MergeStart(j) ==
  /\ phase = "reconcile"
  /\ jobs[j].pc = "merging"
  /\ ~jobs[j].started
  /\ j \notin hung.jobs
  /\ jobs' = [jobs EXCEPT ![j].started = TRUE, ![j].bars = @ + 1]
  /\ UNCHANGED <<files, phase, scanVars, probesLeft, selectedVideos, destFS, rerun,
                 abort, hung, ffmpegCommand, transfer>>

\* mergeToFile emitted "end".
MergeDone(j) ==
  /\ phase = "reconcile"
  /\ jobs[j].pc = "merging"
  /\ jobs[j].started
  /\ j \notin hung.jobs
  /\ \E file \in Outcome(j) : destFS' = [destFS EXCEPT ![DestOf(j)] = file]
  /\ jobs' = [jobs EXCEPT ![j].pc = "done"]
  /\ UNCHANGED <<files, phase, scanVars, probesLeft, selectedVideos, rerun, abort,
                 hung, ffmpegCommand, transfer>>

\* copyFile rejected, or mergeToFile emitted "error".
TransferFail(j) ==
  /\ phase = "reconcile"
  /\ jobs[j].pc \in {"copying", "merging"}
  /\ j \notin hung.jobs
  /\ Reject("TransferFailure", selectedVideos[j].volume, 0, j)
  /\ UNCHANGED <<files, scanVars, probesLeft, selectedVideos, jobs, destFS, rerun,
                 hung, ffmpegCommand, transfer>>

\* The getDuration of the destination, the copyFile or the mergeToFile of job j
\* will never settle.
JobHang(j) ==
  /\ phase = "reconcile"
  /\ jobs[j].pc \in {"probeDest", "copying", "merging"}
  /\ hung = NoHang
  /\ hung' = [hung EXCEPT !.jobs = {j}]
  /\ UNCHANGED <<files, phase, scanVars, probesLeft, selectedVideos, jobs, destFS,
                 rerun, abort, ffmpegCommand, transfer>>

\* The reconcile phase's Promise.all resolved: the script ends.
ReconcileEnd ==
  /\ phase = "reconcile"
  /\ \A j \in 1..Len(jobs) : jobs[j].pc \in {"skipped", "done"}
  /\ phase' = "finished"
  /\ UNCHANGED <<files, scanVars, probesLeft, selectedVideos, jobs, destFS, rerun, abort,
                 hung, ffmpegCommand, transfer>>

\* The script is run again on the same volumes with the same answers to the
\* prompts: the same recordings are reconciled against the destination folder
\* as the run before left it.
Rerun ==
  /\ phase = "finished"
  /\ phase' = "reconcile"
  /\ jobs' = [j \in 1..Len(selectedVideos) |-> NewJob]
  /\ rerun' = TRUE
  /\ UNCHANGED <<files, scanVars, probesLeft, selectedVideos, destFS, abort,
                 hung, ffmpegCommand, transfer>>

Next ==
  \/ \E v \in VolumeSet : VolumeReaddirDone(v)
  \/ \E v \in VolumeSet : VolumeReaddirFail(v)
  \/ \E v \in VolumeSet, d \in DirSet : DirReaddirDone(v, d)
  \/ \E f \in FileIds : StatDone(f)
  \/ \E f \in FileIds : StatDoneNoMatch(f)
  \/ \E f \in FileIds : StatFail(f)
  \/ \E f \in FileIds : ExtractDone(f)
  \/ \E f \in FileIds : ExtractFail(f)
  \/ ScanEnd
  \/ \E c \in AllChapters : ProbeDone(c[1], c[2], c[3])
  \/ \E c \in AllChapters : ProbeFail(c[1], c[2], c[3])
  \/ \E c \in AllChapters : ProbeHang(c[1], c[2], c[3])
  \/ DurationsEnd
  \/ Select
  \/ \E j \in 1..Len(jobs) : DestStatDone(j)
  \/ \E j \in 1..Len(jobs) : SourceStatDone(j)
  \/ \E j \in 1..Len(jobs) : DestProbeDone(j)
  \/ \E j \in 1..Len(jobs) : CheckFail(j)
  \/ \E j \in 1..Len(jobs) : CopyDone(j)
  \/ \E j \in 1..Len(jobs) : MergeStart(j)
  \/ \E j \in 1..Len(jobs) : MergeDone(j)
  \/ \E j \in 1..Len(jobs) : TransferFail(j)
  \/ \E j \in 1..Len(jobs) : JobHang(j)
  \/ ReconcileEnd
  \/ Rerun

Spec == Init /\ [][Next]_vars


(***************************************************************************)
(* Properties                                                              *)
(***************************************************************************)

\* The files the scan starts a task for and whose name matches.
MatchedChapters ==
  {f \in files : /\ StartsWith(Catalogue[f].dir, Prefix100)
                 /\ EndsWith(Catalogue[f].fileName, Ext)
                 /\ ~NoMatch(Catalogue[f].fileName)}

ScanEnded == phase \in {"durations", "select", "reconcile", "finished"}

\* Where file f is held: (volume, recording, position).
PlacesOf(f) ==
  {c \in AllChapters : videosByVolume[c[1]][c[2]].chapterFilePaths[c[3]] = f}

\* C1: at every moment of the scan no volume's list holds two recordings with the
\* same vidNumber, and once the scan has ended every matched chapter is held exactly
\* once, by the one recording of its volume that has its sequence number.
C1_OneRecordingPerSequence ==
  /\ \A v \in VolumeSet : \A i, j \in 1..Len(videosByVolume[v]) :
       videosByVolume[v][i].vidNumber = videosByVolume[v][j].vidNumber => i = j
  /\ ScanEnded =>
       \A f \in MatchedChapters :
         /\ Cardinality(PlacesOf(f)) = 1
         /\ \A c \in PlacesOf(f) :
              /\ c[1] = Catalogue[f].volume
              /\ videosByVolume[c[1]][c[2]].vidNumber = VidNumberOf(Catalogue[f].fileName)

\* C1's case: two chapters of one recording were both past the lookup and in
\* extraction before either was inserted, and the scan ended.
C1_Witness ==
  /\ phase = "durations"
  /\ \E v \in VolumeSet : \E i \in 1..Len(videosByVolume[v]) :
       LET paths == videosByVolume[v][i].chapterFilePaths
       IN /\ Len(paths) = 2
          /\ paths[1] \in extractions
          /\ paths[2] \in extractions

\* C2: every merge that was started got its inputs in ascending chapter-index order.
C2_MergeInputsAscending ==
  \A j \in 1..Len(jobs) :
    jobs[j].merges > 0 =>
      \A a, b \in 1..Len(jobs[j].inputs) :
        a < b => ChapterIndexOf(Catalogue[jobs[j].inputs[a]].fileName)
                   < ChapterIndexOf(Catalogue[jobs[j].inputs[b]].fileName)

\* C3: getDeviceNameFromFile is started on at most one file per (volume, sequence
\* number).
C3_OneExtractionPerRecording ==
  \A f, g \in extractions :
    (/\ Catalogue[f].volume = Catalogue[g].volume
     /\ VidNumberOf(Catalogue[f].fileName) = VidNumberOf(Catalogue[g].fileName))
      => f = g

Decided(j) == jobs[j].pc \in {"skipped", "copying", "merging", "done"}

\* The skip condition as the claim states it, on what the job's stat and probe
\* calls returned.
SkipCondition(j) ==
  LET paths == selectedVideos[j].chapterFilePaths
  IN /\ jobs[j].destinationStat.exists
     /\ IF Len(paths) = 1
        THEN jobs[j].destinationStat.size >= Catalogue[paths[1]].size
        ELSE jobs[j].destinationDuration \div 10
               = selectedVideos[j].totalDuration \div 10

\* C4: a job whose checks have returned has started nothing if and only if the
\* destination existed and was large enough (one chapter) or had the same whole
\* seconds (two or more); otherwise it has started exactly one copy (one chapter)
\* or exactly one merge (two or more), and never the other operation. A job whose
\* checks have not returned has started nothing.
C4_SkipOrOneOperation ==
  \A j \in 1..Len(jobs) :
    LET n == Len(selectedVideos[j].chapterFilePaths)
    IN IF Decided(j)
       THEN /\ (jobs[j].copies = 0 /\ jobs[j].merges = 0) <=> SkipCondition(j)
            /\ ~SkipCondition(j) =>
                 IF n = 1 THEN jobs[j].copies = 1 /\ jobs[j].merges = 0
                          ELSE jobs[j].copies = 0 /\ jobs[j].merges = 1
       ELSE jobs[j].copies = 0 /\ jobs[j].merges = 0

\* C4's cases in one state: a one-chapter job that copies over a destination that
\* exists but is smaller than the source, beside a one-chapter job skipped.
C4_Witness ==
  /\ \E j \in 1..Len(jobs) :
       /\ Len(selectedVideos[j].chapterFilePaths) = 1
       /\ jobs[j].destinationStat.exists
       /\ jobs[j].pc = "copying"
  /\ \E j \in 1..Len(jobs) :
       /\ Len(selectedVideos[j].chapterFilePaths) = 1
       /\ jobs[j].pc = "skipped"

\* C5: a run of the reconciliation after a completed one starts no copy and no
\* merge.
C5_SecondRunStartsNothing ==
  rerun => \A j \in 1..Len(jobs) : jobs[j].copies = 0 /\ jobs[j].merges = 0

SameCamera(j) ==
  {k \in 1..Len(selectedVideos) :
     selectedVideos[k].cameraName = selectedVideos[j].cameraName}

\* C6 as claimed: the destination of a selected recording carries its sequence
\* number if another selected recording has its camera name, and carries none if
\* its camera name has no other selected recording.
C6_SuffixPerCamera ==
  \A j \in 1..Len(jobs) :
    /\ Cardinality(SameCamera(j)) >= 2 => DestOf(j)[2] = selectedVideos[j].vidNumber
    /\ Cardinality(SameCamera(j)) = 1 => DestOf(j)[2] = NoSeq

\* C6 as amended: if any two selected recordings share a camera name, the destination
\* of every selected recording carries the recording's own sequence number; if no
\* two do, no destination carries one.
C6_SuffixWhenAnyCameraRepeats ==
  \A j \in 1..Len(jobs) :
    /\ DestOf(j)[1] = selectedVideos[j].cameraName
    /\ IF \E a, b \in 1..Len(selectedVideos) :
            a # b /\ selectedVideos[a].cameraName = selectedVideos[b].cameraName
       THEN DestOf(j)[2] = selectedVideos[j].vidNumber
       ELSE DestOf(j)[2] = NoSeq

\* C6's case: two selected recordings of one camera beside the only selected
\* recording of another camera, whose destination carries its number too.
C6_Witness ==
  /\ phase = "reconcile"
  /\ \E a, b, c \in 1..Len(selectedVideos) :
       /\ a # b
       /\ selectedVideos[a].cameraName = selectedVideos[b].cameraName
       /\ Cardinality(SameCamera(c)) = 1
       /\ DestOf(c)[2] = selectedVideos[c].vidNumber

\* C7: a chapter from a directory without GOPRO in its name is held by a recording
\* whose camera name is the constant, and no extraction was started on it.
C7_NonGoProIsConstant ==
  \A c \in AllChapters :
    LET video == videosByVolume[c[1]][c[2]]
        f == video.chapterFilePaths[c[3]]
    IN ~Includes(Catalogue[f].dir, GOPRO) =>
         video.cameraName = NikonZ30 /\ f \notin extractions

\* C8: a .MP4 file whose name does not match never ends the scan, and no recording
\* holds it.
C8_NoMatchDoesNotFailScan ==
  /\ ~(phase = "aborted" /\ abort.kind = "ParseFailure")
  /\ \A f \in files : NoMatch(Catalogue[f].fileName) => PlacesOf(f) = {}

\* The files of recordings other than the one file f belongs to.
OtherRecordings(f) ==
  {g \in MatchedChapters :
     \/ Catalogue[g].volume # Catalogue[f].volume
     \/ VidNumberOf(Catalogue[g].fileName) # VidNumberOf(Catalogue[f].fileName)}

\* C9: when an extraction, probe or transfer failure of one recording ends the run,
\* no other recording is left unreconciled: after a failure in the reconcile phase
\* every other job is skipped or done, and a failure before the selection does not
\* end the run while the volumes hold another recording.
C9_FailureStopsOnlyItsRecording ==
  (phase = "aborted"
     /\ abort.kind \in {"ExtractionFailure", "ProbeFailure", "TransferFailure"}) =>
    IF abort.job # 0
    THEN \A k \in 1..Len(jobs) : k # abort.job => jobs[k].pc \in {"skipped", "done"}
    ELSE OtherRecordings(abort.file) = {}

\* The scan of volume w has completed: nothing of it is in flight and every matched
\* chapter of it is held by a recording.
VolumeScanned(w) ==
  /\ volTask[w] = "done"
  /\ \A d \in DirSet : dirTask[<<w, d>>] # "readdir"
  /\ \A f \in MatchedChapters : Catalogue[f].volume = w => PlacesOf(f) # {}

\* C10: when reading DCIM or a camera-card directory of one volume fails, the scan
\* of every other volume has completed or goes on: the run is not ended with
\* another volume unscanned.
C10_UnreadableVolumeIsIsolated ==
  (phase = "aborted" /\ abort.kind = "ScanFailure") =>
    \A w \in VolumeSet : w # abort.volume => VolumeScanned(w)

Abs(x) == IF x < 0 THEN 0 - x ELSE x

\* The job's getDuration(destinationFile) has returned.
DestProbed(j) ==
  /\ Len(selectedVideos[j].chapterFilePaths) >= 2
  /\ jobs[j].destinationStat.exists
  /\ jobs[j].pc \in {"skipped", "merging", "done"}

\* C11 as claimed: a job of two or more chapters whose destination exists and has a
\* duration less than one second away from totalDuration starts no merge.
C11_SkipWithinOneSecond ==
  \A j \in 1..Len(jobs) :
    (DestProbed(j)
       /\ Abs(jobs[j].destinationDuration - selectedVideos[j].totalDuration) < 10)
      => jobs[j].merges = 0

\* C11 as amended: a job of two or more chapters whose destination exists starts no
\* merge exactly when the destination's duration and totalDuration have the same
\* whole seconds; durations less than a second apart on the two sides of a whole
\* second are merged again.
C11_SkipOnSameWholeSeconds ==
  \A j \in 1..Len(jobs) :
    DestProbed(j) =>
      (jobs[j].merges = 0
         <=> jobs[j].destinationDuration \div 10
               = selectedVideos[j].totalDuration \div 10)

\* C11's case: a merge job skipped over a destination whose duration is not
\* totalDuration but has its whole seconds.
C11_Witness ==
  \E j \in 1..Len(jobs) :
    /\ DestProbed(j)
    /\ jobs[j].pc = "skipped"
    /\ jobs[j].destinationDuration # selectedVideos[j].totalDuration

\* The least of the modification times of the paths.
MinMtime(paths) ==
  CHOOSE m \in {Catalogue[paths[k]].mtime : k \in 1..Len(paths)} :
    \A k \in 1..Len(paths) : m <= Catalogue[paths[k]].mtime

\* C16: once the scan has ended, the date of every recording is the earliest
\* modification time among its chapters.
C16_DateIsEarliestMtime ==
  ScanEnded =>
    \A v \in VolumeSet : \A i \in 1..Len(videosByVolume[v]) :
      videosByVolume[v][i].date = MinMtime(videosByVolume[v][i].chapterFilePaths)

\* Per file of the catalogue the sequence number the scan reads from its name,
\* NoSeq for a file the scan does not take.
SequenceNumber ==
  [f \in FileIds |->
     IF /\ StartsWith(Catalogue[f].dir, Prefix100)
        /\ EndsWith(Catalogue[f].fileName, Ext)
        /\ ~NoMatch(Catalogue[f].fileName)
     THEN VidNumberOf(Catalogue[f].fileName)
     ELSE NoSeq]

\* The chapters of recording (v, n): the matched files of the volume with the number.
ChaptersOf(v, n) ==
  {f \in files : Catalogue[f].volume = v /\ SequenceNumber[f] = n}

RECURSIVE SetSumDur(_)
SetSumDur(S) ==
  IF S = {} THEN 0
  ELSE LET f == CHOOSE x \in S : TRUE
       IN Catalogue[f].dur + SetSumDur(S \ {f})

\* C18: whatever the order of the insertions and of the probes, once the duration
\* pass has ended every recording holds exactly the matched files of its volume and
\* number and its totalDuration is the sum of their durations; the selected
\* recordings carry that total; and while the pass runs a total is the sum of the
\* durations of the recording's chapters whose probe has returned.
C18_OrderIndependentTotals ==
  /\ ScanEnded =>
       \A v \in VolumeSet : \A i \in 1..Len(videosByVolume[v]) :
         LET video == videosByVolume[v][i]
             held == {video.chapterFilePaths[k] : k \in 1..Len(video.chapterFilePaths)}
             probed == {video.chapterFilePaths[k] :
                          k \in {x \in 1..Len(video.chapterFilePaths) :
                                   <<v, i, x>> \notin probesLeft}}
         IN /\ held = ChaptersOf(v, video.vidNumber)
            /\ video.totalDuration = SetSumDur(probed)
            /\ phase \in {"select", "reconcile", "finished"} => probed = held
  /\ \A j \in 1..Len(selectedVideos) :
       selectedVideos[j].totalDuration
         = SetSumDur(ChaptersOf(selectedVideos[j].volume, selectedVideos[j].vidNumber))

\* C18's case: the prompt is reached with a recording whose second chapter was
\* inserted before its first.
C18_Witness ==
  /\ phase = "select"
  /\ \E v \in VolumeSet : \E i \in 1..Len(videosByVolume[v]) :
       LET paths == videosByVolume[v][i].chapterFilePaths
       IN /\ Len(paths) = 2
          /\ ChapterIndexOf(Catalogue[paths[1]].fileName)
               > ChapterIndexOf(Catalogue[paths[2]].fileName)

\* C19: no two selected recordings have the same destination path.
C19_DistinctDestinations ==
  \A a, b \in 1..Len(jobs) : a # b => DestOf(a) # DestOf(b)

\* Nothing more can happen although the script neither ended nor failed: it waits
\* for the operation that hangs.
Stuck == hung # NoHang /\ phase # "aborted" /\ ~ENABLED Next

\* The recording of volume v at index i has a job that reached skip or completion.
Reconciled(v, i) ==
  \E j \in 1..Len(jobs) :
    /\ selectedVideos[j].volume = v
    /\ selectedVideos[j].vidNumber = videosByVolume[v][i].vidNumber
    /\ jobs[j].pc \in {"skipped", "done"}

\* C17: when the script waits for one probe, copy or merge that never returns, the
\* job of every other recording has reached skip or completion: every other
\* selected job when a job's operation hangs, every other recording of the scan
\* when a chapter's probe hangs.
C17_HangBlocksOnlyItsRecording ==
  Stuck =>
    /\ \A j \in 1..Len(jobs) : j \notin hung.jobs => jobs[j].pc \in {"skipped", "done"}
    /\ \A c \in hung.probes :
         \A v \in VolumeSet : \A i \in 1..Len(videosByVolume[v]) :
           <<v, i>> # <<c[1], c[2]>> => Reconciled(v, i)

\* C12: a job has no progress bar before its skip check has failed and never more
\* than one: a job still checking or skipped has none, a job copying or done
\* after a copy has one, a merge has none until ffmpeg was spawned and one from
\* then on, also when it is done.
C12_BarOnlyAfterSkipCheck ==
  \A j \in 1..Len(jobs) :
    /\ jobs[j].bars <= 1
    /\ jobs[j].pc \in {"statDest", "statSrc", "probeDest", "skipped"} => jobs[j].bars = 0
    /\ jobs[j].pc = "copying" => jobs[j].bars = 1
    /\ jobs[j].pc = "merging" => jobs[j].bars = (IF jobs[j].started THEN 1 ELSE 0)
    /\ jobs[j].pc = "done" => jobs[j].bars = 1

\* C12's case: in one run a job was skipped over an existing destination and
\* another job finished a copy or a merge.
C12_Witness ==
  /\ \E j \in 1..Len(jobs) :
       jobs[j].pc = "skipped" /\ jobs[j].destinationStat.exists /\ jobs[j].bars = 0
  /\ \E j \in 1..Len(jobs) : jobs[j].pc = "done" /\ jobs[j].bars = 1

(***************************************************************************)
(* One copy or merge and its progress bar, event by event, as the copy job  *)
(* (src/index.ts:257-269, src/unnamed/part_000:187-199) and the merge job   *)
(* (src/index.ts:293-317, src/unnamed/part_000:216-241) handle them.        *)
(* Sizes are bytes, durations and timemarks tenths of a second; the bar's   *)
(* total and curr are kept in tenths of the unit of the total.              *)
(***************************************************************************)

mainVars == <<files, phase, volTask, dirTask, fileTask, videosByVolume, extractions,
              probesLeft, selectedVideos, jobs, destFS, rerun, abort, hung>>

\* The script itself is not running.
MainIdle ==
  /\ files = {}
  /\ phase = "idle"
  /\ volTask = [v \in VolumeSet |-> "done"]
  /\ dirTask = [vd \in VolumeSet \X DirSet |-> "idle"]
  /\ fileTask = [f \in FileIds |-> "idle"]
  /\ videosByVolume = [v \in VolumeSet |-> <<>>]
  /\ extractions = {}
  /\ probesLeft = {}
  /\ selectedVideos = <<>>
  /\ jobs = <<>>
  /\ destFS = [p \in DestPaths |-> NoFile]
  /\ rerun = FALSE
  /\ abort = NoAbort
  /\ hung = NoHang

Variants == {"index.ts", "part_000"}

\* The sizes of the files a copy job can be given and the total durations a merge
\* job can be given.
CopySizes == {Catalogue[f].size : f \in FileIds}
MergeDurations == {SumDur(<<1, 2>>), SumDur(<<1, 2, 4>>)}

\* The timemarks ffmpeg reports, split at ":" with every part read as a number
\* (the last part in tenths of a second): "1.3", "00:00:02.0", "00:00:02.6",
\* "00:00:03.1" and "00:01:00.5".
Timemarks == {<<13>>, <<0, 0, 20>>, <<0, 0, 26>>, <<0, 0, 31>>, <<0, 1, 5>>}

\* timemarkToSeconds, in tenths of a second: the last part is the seconds, the one
\* before it the minutes, the one before that the hours.
TimemarkToSeconds(parts) ==
  LET n == Len(parts)
      secs == parts[n]
      withMinutes == IF n >= 2 THEN secs + parts[n - 1] * 600 ELSE secs
  IN IF n >= 3 THEN withMinutes + parts[n - 2] * 36000 ELSE withMinutes

\* bar.update(num / den) of the progress package: curr becomes
\* floor(ratio * total) and the bar is marked complete when curr reaches total.
BarUpdate(t, num, den) ==
  LET goal == ((num * t.total) \div (den * 10)) * 10
  IN [t EXCEPT !.curr = goal,
               !.complete = @ \/ goal >= t.total,
               !.passed = [num |-> num, den |-> den]]

\* multi.newBar(..., {total})
NewBar(t) == [t EXCEPT !.bars = @ + 1, !.curr = 0, !.complete = FALSE]

\* The copy job after its skip check failed: the bar is allocated and copyFile is
\* called.  The merge job after its skip check failed: mergeToFile is called.
InitTransfer ==
  /\ MainIdle
  /\ ffmpegCommand = NoCommand
  /\ \E variant \in Variants :
       \/ \E size \in CopySizes :
            transfer = NewBar([NoTransfer EXCEPT !.variant = variant, !.kind = "copy",
                                                 !.total = size * 10, !.pc = "running"])
       \/ \E totalDuration \in MergeDurations :
            transfer = [NoTransfer EXCEPT !.variant = variant, !.kind = "merge",
                                          !.total = totalDuration, !.pc = "running"]

\* copyFile called onProgress({writtenBytes, size}).
BarCopyProgress(writtenBytes) ==
  /\ transfer.kind = "copy"
  /\ transfer.pc = "running"
  /\ writtenBytes * 10 >= transfer.at
  /\ writtenBytes * 10 <= transfer.total
  /\ transfer' = [BarUpdate(transfer, writtenBytes * 10, transfer.total)
                    EXCEPT !.at = writtenBytes * 10]
  /\ UNCHANGED <<mainVars, ffmpegCommand>>

\* copyFile resolved: the job returns.
BarCopyResolved ==
  /\ transfer.kind = "copy"
  /\ transfer.pc = "running"
  /\ transfer' = [transfer EXCEPT !.pc = "done"]
  /\ UNCHANGED <<mainVars, ffmpegCommand>>

\* copyFile rejected.
BarCopyRejected ==
  /\ transfer.kind = "copy"
  /\ transfer.pc = "running"
  /\ transfer' = [transfer EXCEPT !.pc = "failed"]
  /\ UNCHANGED <<mainVars, ffmpegCommand>>

\* ffmpeg was spawned ("start"): src/index.ts allocates the bar, part_000 has no
\* handler.
BarMergeStart ==
  /\ transfer.kind = "merge"
  /\ transfer.pc = "running"
  /\ ~transfer.started
  /\ transfer' = IF transfer.variant = "index.ts"
                 THEN [NewBar(transfer) EXCEPT !.started = TRUE]
                 ELSE [transfer EXCEPT !.started = TRUE]
  /\ UNCHANGED <<mainVars, ffmpegCommand>>

\* "progress" with a timemark: src/index.ts updates the bar unless it is complete,
\* part_000 allocates the bar at the first event and updates it.
BarMergeProgress(timemark) ==
  LET secs == TimemarkToSeconds(timemark)
      bar == IF transfer.variant = "part_000" /\ transfer.bars = 0
             THEN NewBar(transfer) ELSE transfer
  IN /\ transfer.kind = "merge"
     /\ transfer.pc = "running"
     /\ transfer.started
     /\ secs > transfer.at
     /\ transfer' =
          IF transfer.variant = "index.ts" /\ transfer.complete
          THEN [transfer EXCEPT !.at = secs]
          ELSE [BarUpdate(bar, secs, transfer.total) EXCEPT !.at = secs]
     /\ UNCHANGED <<mainVars, ffmpegCommand>>

\* "end": bar.update(1); bar.complete = true; resolve.  In part_000 bar is
\* undefined when no "progress" came before, and bar.update throws.
BarMergeEnd ==
  /\ transfer.kind = "merge"
  /\ transfer.pc = "running"
  /\ transfer.started
  /\ transfer' =
       IF transfer.bars = 0
       THEN [transfer EXCEPT !.pc = "crashed"]
       ELSE [BarUpdate(transfer, 1, 1) EXCEPT !.complete = TRUE, !.pc = "done"]
  /\ UNCHANGED <<mainVars, ffmpegCommand>>

\* "error": reject.
BarMergeError ==
  /\ transfer.kind = "merge"
  /\ transfer.pc = "running"
  /\ transfer' = [transfer EXCEPT !.pc = "failed"]
  /\ UNCHANGED <<mainVars, ffmpegCommand>>

NextTransfer ==
  \/ \E writtenBytes \in 0..(transfer.total \div 10) : BarCopyProgress(writtenBytes)
  \/ BarCopyResolved
  \/ BarCopyRejected
  \/ BarMergeStart
  \/ \E timemark \in Timemarks : BarMergeProgress(timemark)
  \/ BarMergeEnd
  \/ BarMergeError

SpecTransfer == InitTransfer /\ [][NextTransfer]_vars

\* C13: in both variants a copy or merge that the executor ended without an error
\* leaves its job finished with one bar that is marked complete and whose last
\* update was given 1, whatever progress events came before.
C13_CompleteAtOneOnSuccess ==
  transfer.pc \in {"done", "crashed"} =>
    /\ transfer.pc = "done"
    /\ transfer.bars = 1
    /\ transfer.complete
    /\ transfer.passed # NoValue
    /\ transfer.passed.num = transfer.passed.den

\* C14: every value passed to bar.update is a fraction between 0 and 1.
C14_UpdateWithinUnitInterval ==
  transfer.passed # NoValue =>
    /\ transfer.passed.den > 0
    /\ 0 <= transfer.passed.num
    /\ transfer.passed.num <= transfer.passed.den

(***************************************************************************)
(* One call of getDeviceNameFromFile (src/index.ts:65-90), event by event.  *)
(* The GPMF substream is a sequence of characters which ffmpeg hands to the *)
(* "data" handler in chunks of any length.                                  *)
(***************************************************************************)

DVNMc == <<"D", "V", "N", "M", "c">>
STRM == <<"S", "T", "R", "M">>

\* The substreams: a framed name with a blank in it; a name with no end marker;
\* a framed token with no letter or digit; two framed names; a framed name with
\* a line feed before it.
Streams ==
  << <<"x">> \o DVNMc \o <<"H", " ", "8">> \o STRM,
     DVNMc \o <<"H", "8">>,
     DVNMc \o <<" ">> \o STRM,
     DVNMc \o <<"A">> \o STRM \o DVNMc \o <<"B">> \o STRM,
     DVNMc \o <<"\n", "H">> \o STRM >>

\* [a-zA-Z0-9] among the characters of the substreams
AlphaNum == {"D", "V", "N", "M", "c", "S", "T", "R", "H", "A", "B", "x", "8"}

\* "." of a regular expression without the s flag
Dot(c) == c \notin {"\n", "\r"}

IsAt(chunk, i, literal) ==
  /\ i + Len(literal) - 1 <= Len(chunk)
  /\ SubSeq(chunk, i, i + Len(literal) - 1) = literal

\* The positions where STRM can end a match of /DVNMc(.+)STRM/ that starts at i.
EndsFor(chunk, i) ==
  {e \in (i + Len(DVNMc) + 1)..Len(chunk) :
     /\ IsAt(chunk, e, STRM)
     /\ \A k \in (i + Len(DVNMc))..(e - 1) : Dot(chunk[k])}

\* chunk.toString("utf8").match(/DVNMc(.+)STRM/u)?.[1]?.replace(/[^a-zA-Z0-9]/g, ""):
\* the leftmost start, the longest capture, its letters and digits; the empty
\* sequence stands for undefined and for "", which the handler does not tell apart.
DeviceNameIn(chunk) ==
  LET starts == {i \in 1..Len(chunk) : IsAt(chunk, i, DVNMc) /\ EndsFor(chunk, i) # {}}
  IN IF starts = {} THEN <<>>
     ELSE LET i == CHOOSE x \in starts : \A y \in starts : x <= y
              e == CHOOSE x \in EndsFor(chunk, i) : \A y \in EndsFor(chunk, i) : x >= y
          IN SelectSeq(SubSeq(chunk, i + Len(DVNMc), e - 1), LAMBDA c : c \in AlphaNum)

FailedToGet == <<"Failed to get the camera name">>
FfmpegError == <<"ffmpeg error">>
UnknownDevice == <<"Unknown Device">>

\* resolve(value) and reject(value) of the promise: the first to be called decides.
Resolve(c, value) ==
  IF c.promise = "pending" THEN [c EXCEPT !.promise = "resolved", !.value = value] ELSE c
RejectWith(c, value) ==
  IF c.promise = "pending" THEN [c EXCEPT !.promise = "rejected", !.value = value] ELSE c

StreamOf(c) == Streams[c.stream]

InitCommand ==
  /\ MainIdle
  /\ transfer = NoTransfer
  /\ ffmpegCommand \in {[NoCommand EXCEPT !.stream = n] : n \in 1..Len(Streams)}

\* "data" with the next n characters of the substream.
CommandData(n) ==
  LET c == ffmpegCommand
      chunk == SubSeq(StreamOf(c), c.pos + 1, c.pos + n)
      deviceName == DeviceNameIn(chunk)
  IN /\ c.stream # 0
     /\ ~c.ended
     /\ c.pos + n <= Len(StreamOf(c))
     /\ ffmpegCommand' =
          IF deviceName # <<>>
          THEN Resolve([c EXCEPT !.pos = @ + n, !.kills = @ + 1], deviceName)
          ELSE [c EXCEPT !.pos = @ + n]
     /\ UNCHANGED <<mainVars, transfer>>

\* CommandEnd with the default of line 89 taken
CommandEndDefault ==
  LET c == ffmpegCommand
  IN /\ c.stream # 0
     /\ ~c.ended
     /\ c.pos = Len(StreamOf(c)) \/ c.kills > 0 \/ c.errored
     /\ ffmpegCommand' = Resolve([c EXCEPT !.ended = TRUE], UnknownDevice)
     /\ UNCHANGED <<mainVars, transfer>>

\* "end" of the piped output: after the last character, or earlier when ffmpeg was
\* killed or failed.
CommandEnd ==
  LET c == ffmpegCommand
  IN /\ c.stream # 0
     /\ ~c.ended
     /\ c.pos = Len(StreamOf(c)) \/ c.kills > 0 \/ c.errored
     /\ ffmpegCommand' = RejectWith([c EXCEPT !.ended = TRUE], FailedToGet)
     /\ UNCHANGED <<mainVars, transfer>>

\* "error" of the command: ffmpeg failed, or it was killed.
CommandError ==
  LET c == ffmpegCommand
  IN /\ c.stream # 0
     /\ ~c.errored
     /\ ffmpegCommand' = RejectWith([c EXCEPT !.errored = TRUE], FfmpegError)
     /\ UNCHANGED <<mainVars, transfer>>

NextCommand ==
  \/ \E n \in 1..Len(StreamOf(ffmpegCommand)) : CommandData(n)
  \/ CommandEnd
  \/ CommandError

SpecCommand == InitCommand /\ [][NextCommand]_vars

\* What the promise of getDeviceNameFromFile may hold in any state: it is resolved
\* only after a kill, with a name and never with the default; once the stream has
\* ended with no name found it is rejected, with the message of line 87 unless
\* ffmpeg failed first.
CommandStateOK ==
  LET c == ffmpegCommand
  IN /\ c.promise = "resolved" => c.kills >= 1 /\ c.value \notin {<<>>, UnknownDevice}
     /\ c.ended /\ c.kills = 0 => c.promise = "rejected"
     /\ c.ended /\ c.kills = 0 /\ ~c.errored => c.value = FailedToGet

\* What a step of getDeviceNameFromFile may do: ffmpeg is killed in the steps that
\* deliver a chunk with a name in it and in no other; the first of them resolves
\* the promise with the name of that chunk; a promise that is resolved or
\* rejected keeps its state and its value.
CommandStepOK ==
  LET c == ffmpegCommand
      chunk == SubSeq(StreamOf(c), c.pos + 1, ffmpegCommand'.pos)
      found == ffmpegCommand'.pos > c.pos /\ DeviceNameIn(chunk) # <<>>
  IN /\ ffmpegCommand'.kills = (IF found THEN c.kills + 1 ELSE c.kills)
     /\ found /\ c.promise = "pending" =>
          ffmpegCommand'.promise = "resolved" /\ ffmpegCommand'.value = DeviceNameIn(chunk)
     /\ c.promise # "pending" =>
          ffmpegCommand'.promise = c.promise /\ ffmpegCommand'.value = c.value

\* C15: ffmpeg is killed at the first chunk in which a device name is found and the
\* call resolves with that name, letters and digits only; a stream that ends
\* with no name found makes the call fail, never resolve with a default name;
\* and no later "data", "end" or "error" event changes a result once decided.
C15_KillAtFirstNameAndResultIsFinal ==
  [](CommandStateOK) /\ [][CommandStepOK]_vars

\* C15's case: the call was resolved by a chunk before the end of the substream,
\* and the "error" of the kill and the "end" of the pipe came afterwards.
C15_Witness ==
  LET c == ffmpegCommand
  IN /\ c.stream # 0
     /\ c.promise = "resolved"
     /\ c.kills >= 1
     /\ c.errored
     /\ c.ended
     /\ c.pos < Len(StreamOf(c))

\* C20: when the substream, taken as one sequence, holds a framed device name and
\* was delivered to its end with no failure of ffmpeg, the call has resolved with
\* a name.
C20_NameFoundHoweverSplit ==
  LET c == ffmpegCommand
  IN (/\ c.stream # 0
      /\ c.ended
      /\ ~c.errored
      /\ DeviceNameIn(StreamOf(c)) # <<>>)
       => c.promise = "resolved"

====
